---- MODULE Spec2Model ----
(***************************************************************************)
(* Redis-backed session middleware of actix-redis-cluster                  *)
(* (src/src/session.rs): RedisSessionMiddleware::call, Inner::load and     *)
(* Inner::update, together with the collaborators they drive: the signed   *)
(* cookie jar, the JSON encoding of the session map, the Redis actor and   *)
(* the downstream service.                                                 *)
(***************************************************************************)
EXTENDS Integers, Sequences, FiniteSets, TLC

\* ------------------------------------------------------------------ bounds
\* Number of requests the surrounding pipeline runs (concurrently).
MaxReqs == 2
\* Number of distinct outcomes of the random id generator that are explored.
NumIds == 2

\* ------------------------------------------------------- program constants
\* .take(32): length of a generated session id.
IdLen == 32
\* Duration::days(7), in seconds.
DefaultMaxAge == 604800

Reqs == 1 .. MaxReqs

\* Option<T>: None is the empty sequence, Some(x) the one-element sequence.
None == << >>
Some(x) == << x >>
IsSome(o) == Len(o) = 1
Unwrap(o) == o[1]

\* ------------------------------------------------------------- session ids
\* rand::distributions::Alphanumeric: A-Z, a-z, 0-9.
Alphanumeric ==
    << "A", "B", "C", "D", "E", "F", "G", "H", "I", "J", "K", "L", "M",
       "N", "O", "P", "Q", "R", "S", "T", "U", "V", "W", "X", "Y", "Z",
       "a", "b", "c", "d", "e", "f", "g", "h", "i", "j", "k", "l", "m",
       "n", "o", "p", "q", "r", "s", "t", "u", "v", "w", "x", "y", "z",
       "0", "1", "2", "3", "4", "5", "6", "7", "8", "9" >>

\* One outcome of iter::repeat(()).map(|()| OsRng.sample(Alphanumeric))
\* .take(32).collect(): the n-th of the explored 32-character strings.
SampleId(n) ==
    [i \in 1 .. IdLen |-> Alphanumeric[((n * i) % Len(Alphanumeric)) + 1]]

\* The outcomes of the generator that are explored.
Ids == { SampleId(n) : n \in 1 .. NumIds }

\* ------------------------------------------------------- signed cookie jar
\* The keyed hash of a cookie value, as a free term over (key, value): two
\* digests are equal exactly when key and value are.
Mac(key, value) == << key, value >>

\* The wire value of a cookie is digest + value; a plain (unsigned) value
\* carries no digest.
NoDigest == << >>
PlainValue(v) == [digest |-> NoDigest, value |-> v]

\* Mutant of SignedAdd: the digest is made with a key derived from another
\* secret than the one load verifies with.
SignedAdd_other_key(key, cookie) ==
    [cookie EXCEPT !.value = [digest |-> Mac(<< "signing", "secret-of-another-server" >>,
                                             cookie.value.value),
                              value |-> cookie.value.value]]

\* jar.signed(&key).add(cookie): the cookie's value becomes digest + value.
SignedAdd(key, cookie) ==
    [cookie EXCEPT !.value = [digest |-> Mac(key, cookie.value.value),
                              value |-> cookie.value.value]]

\* Mutant of SignedGet: the value is taken without verifying the digest.
SignedGet_unverified(key, cookie) ==
    Some([cookie EXCEPT !.value = PlainValue(cookie.value.value)])

\* jar.signed(&key).get(name) on a jar holding the original cookie: the
\* cookie with its unsigned value when the digest verifies, else None.
SignedGet(key, cookie) ==
    IF cookie.value.digest = Mac(key, cookie.value.value)
    THEN Some([cookie EXCEPT !.value = PlainValue(cookie.value.value)])
    ELSE None

\* ----------------------------------------------------- session map as JSON
\* The stored bytes are a sequence of JSON tokens.
Tok(t, s) == [t |-> t, s |-> s]
LBrace == Tok("punct", "{")
RBrace == Tok("punct", "}")
Colon == Tok("punct", ":")
Comma == Tok("punct", ",")
Str(s) == Tok("str", s)
Num(s) == Tok("num", s)

\* HashMap<String, String>: a function from a finite set of keys to values.
EmptyMap == << >>
Insert(m, k, v) == [x \in (DOMAIN m) \cup {k} |-> IF x = k THEN v ELSE m[x]]

RECURSIVE MembersFrom(_, _, _)
MembersFrom(state, order, i) ==
    IF i > Len(order) THEN << >>
    ELSE (IF i > 1 THEN << Comma >> ELSE << >>)
         \o << Str(order[i]), Colon, Str(state[order[i]]) >>
         \o MembersFrom(state, order, i + 1)

\* serde_json::to_string(&state): the members in the map's iteration order.
to_string(state, order) ==
    << LBrace >> \o MembersFrom(state, order, 1) \o << RBrace >>

\* The iteration orders of a HashMap: the permutations of its keys.
Orders(state) ==
    { o \in [1 .. Cardinality(DOMAIN state) -> DOMAIN state] :
        \A i, j \in DOMAIN o : i # j => o[i] # o[j] }

JsonOk(v) == [ok |-> TRUE, val |-> v]
JsonErr == [ok |-> FALSE, val |-> EmptyMap]

RECURSIVE ParseMembers(_, _, _)
ParseMembers(b, i, acc) ==
    IF i + 3 > Len(b) THEN JsonErr
    ELSE IF b[i].t = "str" /\ b[i + 1] = Colon /\ b[i + 2].t = "str"
    THEN LET acc2 == Insert(acc, b[i].s, b[i + 2].s)
         IN  IF b[i + 3] = RBrace
             THEN (IF i + 3 = Len(b) THEN JsonOk(acc2) ELSE JsonErr)
             ELSE IF b[i + 3] = Comma
             THEN ParseMembers(b, i + 4, acc2)
             ELSE JsonErr
    ELSE JsonErr

\* Mutant of from_slice: an object without members is rejected.
from_slice_no_empty(b) ==
    IF Len(b) < 2 \/ b[1] # LBrace THEN JsonErr
    ELSE ParseMembers(b, 2, EmptyMap)

\* serde_json::from_slice::<HashMap<String, String>>(&s).
from_slice(b) ==
    IF Len(b) < 2 \/ b[1] # LBrace THEN JsonErr
    ELSE IF b[2] = RBrace
    THEN (IF Len(b) = 2 THEN JsonOk(EmptyMap) ELSE JsonErr)
    ELSE ParseMembers(b, 2, EmptyMap)

\* ----------------------------------------------------------- configuration
\* Key::from_master(key): the signing key derived from the master secret.
FromMaster(secret) == << "signing", secret >>

\* The master secret the middleware is constructed with, and another one.
Secret == "secret-of-this-server"
OtherSecret == "secret-of-another-server"

\* RedisSession::new / RedisSession::new_cluster: the defaults.
RedisSession_new(secret) ==
    [key |-> FromMaster(secret),
     ttl |-> "7200",
     name |-> "actix-session",
     path |-> "/",
     domain |-> None,
     secure |-> FALSE,
     max_age |-> Some(DefaultMaxAge),
     same_site |-> None]

\* RedisSession::ttl: format!("{}", ttl).
ttl(self, n) == [self EXCEPT !.ttl = ToString(n)]

\* The arguments of ttl() that are explored.
TtlArgs == {60}

\* The configurations construction can end with.
Configs ==
    {RedisSession_new(Secret)} \cup {ttl(RedisSession_new(Secret), n) : n \in TtlArgs}

\* ------------------------------------------------------------ request data
\* A cookie of a request: its name and wire value.
ReqCookie(name, value) == [name |-> name, value |-> value]

\* The value of a cookie signed with `secret` for id.
SignedValue(secret, id) == [digest |-> Mac(FromMaster(secret), id), value |-> id]

\* Session maps a handler can end with.
SessionStates ==
    { EmptyMap,
      [user |-> "42"],
      [user |-> "7", role |-> "admin"] }

\* Stored bytes that are no JSON object of strings: a truncated object and an
\* object with a number as a value.
CorruptBytes ==
    { << LBrace, Str("user") >>,
      << LBrace, Str("user"), Colon, Num("42"), RBrace >> }

\* SessionStatus of actix_session.
SessionStatuses == {"Changed", "Purged", "Renewed", "Unchanged"}

\* A Set-Cookie header the handler itself put on its response.
HandlerCookie ==
    [name |-> "theme", value |-> PlainValue(<< "d", "a", "r", "k" >>),
     path |-> "/", secure |-> FALSE, http_only |-> FALSE,
     domain |-> None, max_age |-> None, same_site |-> None]

\* The Set-Cookie headers of the handler's response.
HandlerHeaders == { << HandlerCookie >> }

\* ------------------------------------------------------------- Inner::load
\* Mutant of FirstNamed: the last cookie of that name is taken.
FirstNamed_last(cookies, name) ==
    IF \E i \in DOMAIN cookies : cookies[i].name = name
    THEN CHOOSE i \in DOMAIN cookies :
            /\ cookies[i].name = name
            /\ \A j \in DOMAIN cookies : cookies[j].name = name => j <= i
    ELSE 0

\* Index of the first cookie of the request named `name`, 0 when none is.
FirstNamed(cookies, name) ==
    IF \E i \in DOMAIN cookies : cookies[i].name = name
    THEN CHOOSE i \in DOMAIN cookies :
            /\ cookies[i].name = name
            /\ \A j \in DOMAIN cookies : cookies[j].name = name => i <= j
    ELSE 0

\* The synchronous part of Inner::load: Some(key) when a Get { key } is sent
\* to the store (Either::A), None when the future is ok(None) (Either::B).
load(self, cookies) ==
    LET i == FirstNamed(cookies, self.name)
    IN  IF i = 0 THEN None
        ELSE LET cookie == SignedGet(self.key, cookies[i])
             IN  IF IsSome(cookie)
                 THEN Some(Unwrap(cookie).value.value)
                 ELSE None

\* Replies of the store actor to a message: Ok(..), Err(redis error), or the
\* MailboxError of the send itself.
ReplyOk(data) == [kind |-> "ok", data |-> data]
ReplyErr == [kind |-> "err", data |-> None]
ReplyMailbox == [kind |-> "mailbox", data |-> None]
NoReply == [kind |-> "none", data |-> None]

\* Mutant of load_reply: an error of the store is treated as an absent key.
load_reply_soft_fails(rep, value) ==
    IF rep.kind = "ok" /\ IsSome(rep.data) /\ from_slice(Unwrap(rep.data)).ok
    THEN [err |-> "",
          item |-> Some([state |-> from_slice(Unwrap(rep.data)).val, value |-> value])]
    ELSE [err |-> "", item |-> None]

\* Mutant of load_reply: an absent key or undecodable bytes yield an empty
\* session that keeps the id of the cookie.
load_reply_keeps_id(rep, value) ==
    IF rep.kind \in {"mailbox", "err"} THEN [err |-> "InternalServerError", item |-> None]
    ELSE IF IsSome(rep.data) /\ from_slice(Unwrap(rep.data)).ok
    THEN [err |-> "",
          item |-> Some([state |-> from_slice(Unwrap(rep.data)).val, value |-> value])]
    ELSE [err |-> "", item |-> Some([state |-> EmptyMap, value |-> value])]

\* The continuation of Inner::load on the reply to Get:
\* .map_err(From::from).and_then(|res| match res { .. }).
load_reply(rep, value) ==
    IF rep.kind = "mailbox" THEN [err |-> "InternalServerError", item |-> None]
    ELSE IF rep.kind = "err" THEN [err |-> "InternalServerError", item |-> None]
    ELSE IF IsSome(rep.data)
    THEN LET val == from_slice(Unwrap(rep.data))
         IN  IF val.ok
             THEN [err |-> "", item |-> Some([state |-> val.val, value |-> value])]
             ELSE [err |-> "", item |-> None]
    ELSE [err |-> "", item |-> None]

\* ----------------------------------------------------------- Inner::update
\* Messages to the store actor.
Get(key) == [op |-> "GET", key |-> key, value |-> << >>, expiration |-> << >>]
Set(key, value, expiration) ==
    [op |-> "SET", key |-> key, value |-> value, expiration |-> expiration]
Ex(seconds) == << "EX", seconds >>

\* Mutant of update_key: the new cookie is added to the jar unsigned.
update_key_unsigned(self, value, rnd) ==
    IF IsSome(value)
    THEN [key |-> Unwrap(value), jar |-> None]
    ELSE [key |-> rnd,
          jar |-> Some([name |-> self.name, value |-> PlainValue(rnd),
                        path |-> self.path, secure |-> self.secure,
                        http_only |-> TRUE, domain |-> self.domain,
                        max_age |-> self.max_age, same_site |-> self.same_site])]

\* Mutant of update_key: the loaded id is ignored and an id is always
\* generated.
update_key_always_mints(self, value, rnd) ==
    [key |-> rnd,
     jar |-> Some(SignedAdd(self.key,
                  [name |-> self.name, value |-> PlainValue(rnd),
                   path |-> self.path, secure |-> self.secure,
                   http_only |-> TRUE, domain |-> self.domain,
                   max_age |-> self.max_age, same_site |-> self.same_site]))]

\* Mutant of update_key: an id is generated when none was loaded, but no
\* cookie is prepared for it.
update_key_no_cookie(self, value, rnd) ==
    IF IsSome(value)
    THEN [key |-> Unwrap(value), jar |-> None]
    ELSE [key |-> rnd, jar |-> None]

\* The first statement of Inner::update: the key to write under and the jar
\* holding the new signed cookie, if one is needed. `rnd` is the outcome of
\* the random generator.
update_key(self, value, rnd) ==
    IF IsSome(value)
    THEN [key |-> Unwrap(value), jar |-> None]
    ELSE LET cookie == [name |-> self.name,
                        value |-> PlainValue(rnd),
                        path |-> self.path,
                        secure |-> self.secure,
                        http_only |-> TRUE,
                        domain |-> self.domain,
                        max_age |-> self.max_age,
                        same_site |-> self.same_site]
         IN  [key |-> rnd, jar |-> Some(SignedAdd(self.key, cookie))]

\* Mutant of update_msg: the state is encoded after its iterator was
\* consumed, so the body is an empty object.
update_msg_empty_body(self, key, state, order) ==
    Set(key, to_string(EmptyMap, << >>), Ex(self.ttl))

\* Mutant of update_msg: the expiry is the default of RedisSession::new, not
\* the configured one.
update_msg_default_ttl(self, key, state, order) ==
    Set(key, to_string(state, order), Ex(RedisSession_new(Secret).ttl))

\* The message Inner::update sends: serde_json::to_string never fails on a
\* map of strings, so the Ok(body) arm is taken.
update_msg(self, key, state, order) ==
    Set(key, to_string(state, order), Ex(self.ttl))

\* Mutant of update_reply: the cookie is appended whatever the reply is.
update_reply_ignores_error(rep, jar, headers) ==
    [err |-> "",
     headers |-> IF IsSome(jar) THEN headers \o << Unwrap(jar) >> ELSE headers]

\* Mutant of update_reply: the prepared cookie is appended before the reply
\* is looked at, so that a failed request carries it too.
update_reply_cookie_on_error(rep, jar, headers) ==
    [err |-> IF rep.kind = "ok" THEN "" ELSE "InternalServerError",
     headers |-> IF IsSome(jar) THEN headers \o << Unwrap(jar) >> ELSE headers]

\* The continuation of Inner::update on the reply to Set: the headers of the
\* response on Ok(_), the error otherwise.
update_reply(rep, jar, headers) ==
    IF rep.kind = "ok"
    THEN [err |-> "",
          headers |-> IF IsSome(jar) THEN headers \o << Unwrap(jar) >> ELSE headers]
    ELSE [err |-> "InternalServerError", headers |-> << >>]

\* ------------------------------------------------------ Session of handler
\* Mutant of get_changes: an unchanged session is reported as no session,
\* as if the status decided whether update runs.
get_changes_drops_unchanged(held, status, state) ==
    IF held /\ status # "Unchanged" THEN [status |-> status, state |-> Some(state)]
    ELSE [status |-> "Unchanged", state |-> None]

\* Session::get_changes(&mut res): the status and, when the request holds a
\* session (set_session was called, or the handler took the Session), its
\* state.
get_changes(held, status, state) ==
    IF held THEN [status |-> status, state |-> Some(state)]
    ELSE [status |-> "Unchanged", state |-> None]

\* The ways the downstream service can end, given what load produced: it
\* leaves the session alone, or ends with a status and a state. An unchanged
\* or renewed session keeps the injected state, a purged one is empty.
ServiceEnds(item) ==
    LET injected == IF IsSome(item) THEN Unwrap(item).state ELSE EmptyMap
    IN  { [held |-> FALSE, status |-> "Unchanged", state |-> EmptyMap] :
            x \in IF IsSome(item) THEN {} ELSE {0} }
        \cup
        { e \in [held : {TRUE}, status : SessionStatuses, state : SessionStates] :
            /\ e.status \in {"Unchanged", "Renewed"} => e.state = injected
            /\ e.status = "Purged" => e.state = EmptyMap }

\* The cookies a browser can hold for the site when the model starts: none,
\* one signed by this server (whose session has expired), one signed with
\* another secret, one whose value was altered after signing, and an altered
\* one followed by a signed one.
BrowserCookies(self) ==
    LET valid == ReqCookie(self.name, SignedValue(Secret, SampleId(1)))
        forged == ReqCookie(self.name, SignedValue(OtherSecret, SampleId(1)))
        altered == ReqCookie(self.name,
                             [digest |-> Mac(self.key, SampleId(1)),
                              value |-> SampleId(2)])
    IN  { << >>, << valid >>, << forged >>, << altered >>,
          << altered, valid >> }

\* The browser stores the cookies of the Set-Cookie headers of a response,
\* each replacing the cookies of the same name.
RECURSIVE BrowserStore(_, _)
BrowserStore(cookies, headers) ==
    IF headers = << >> THEN cookies
    ELSE LET c == Head(headers)
         IN  BrowserStore(
                 SelectSeq(cookies, LAMBDA x : x.name # c.name)
                     \o << ReqCookie(c.name, c.value) >>,
                 Tail(headers))

\* What the store can hold under the first id when the model starts: nothing,
\* bytes that are no session map, or a session an earlier update wrote.
StoredAtStart ==
    { [bytes |-> None, map |-> None] }
    \cup { [bytes |-> Some(b), map |-> None] : b \in CorruptBytes }
    \cup { [bytes |-> Some(to_string(m, o)), map |-> Some([map |-> m, by |-> 0])] :
             m \in {[user |-> "42"]}, o \in {<< "user" >>} }

\* ------------------------------------------------------------------- state
VARIABLES
    inner,      \* Rc<Inner>: the configuration shared by every request
    browser,    \* the cookies the browser holds for the site
    store,      \* the store: for each key, None or Some(bytes)
    written,    \* for each key, the map of the last applied Set and its request
    pc,         \* where each request's future stands
    req,        \* the cookies of each request
    loaded,     \* what load resolved to: None or Some((state, value))
    seen,       \* written[key] when the store served the request's Get
    report,     \* get_changes of the response and the handler's own headers
    upd,        \* key and jar of the request's update
    reply,      \* the replies of the store actor to the request's Get and Set
    sent,       \* the messages the request sent to the store actor
    res,        \* the Set-Cookie headers of the response
    outcome     \* how the request ended

vars == << inner, browser, store, written, pc, req, loaded, seen, report, upd, reply,
           sent, res, outcome >>

NoReport == [ran |-> FALSE, status |-> "Unchanged", state |-> None, headers |-> << >>]
NoReplies == [get |-> NoReply, set |-> NoReply]
NoUpdate == [key |-> << >>, jar |-> None]

Init ==
    /\ inner \in Configs
    /\ browser \in BrowserCookies(inner)
    /\ \E held \in StoredAtStart :
        /\ store = [id \in Ids |-> IF id = SampleId(1) THEN held.bytes ELSE None]
        /\ written = [id \in Ids |-> IF id = SampleId(1) THEN held.map ELSE None]
    /\ pc = [r \in Reqs |-> "idle"]
    /\ req = [r \in Reqs |-> << >>]
    /\ loaded = [r \in Reqs |-> None]
    /\ seen = [r \in Reqs |-> None]
    /\ report = [r \in Reqs |-> NoReport]
    /\ upd = [r \in Reqs |-> NoUpdate]
    /\ reply = [r \in Reqs |-> NoReplies]
    /\ sent = [r \in Reqs |-> << >>]
    /\ res = [r \in Reqs |-> << >>]
    /\ outcome = [r \in Reqs |-> "pending"]

\* The message a request waits on.
InFlight(r) == sent[r][Len(sent[r])]

\* RedisSessionMiddleware::call up to its first suspension: load scans the
\* cookies and either sends Get or resolves to None, and then the service is
\* called. Requests are numbered in the order they arrive.
Call(r) ==
    /\ pc[r] = "idle"
    /\ IF r = 1 THEN TRUE ELSE pc[r - 1] # "idle"
    /\ LET key == load(inner, browser)
       IN   /\ req' = [req EXCEPT ![r] = browser]
            /\ IF IsSome(key)
               THEN /\ sent' = [sent EXCEPT ![r] = << Get(Unwrap(key)) >>]
                    /\ pc' = [pc EXCEPT ![r] = "load_wait"]
               ELSE /\ sent' = sent
                    /\ pc' = [pc EXCEPT ![r] = "service"]
    /\ UNCHANGED << inner, browser, store, written, loaded, seen, report, upd, reply,
                    res, outcome >>

\* Mutant of LoadReply: a failed Get is sent once more before the request
\* gives up.
LoadReply_retries(r) ==
    /\ pc[r] = "load_wait"
    /\ \E rep \in {ReplyOk(store[InFlight(r).key]), ReplyErr, ReplyMailbox} :
        LET state == load_reply(rep, InFlight(r).key)
        IN  /\ reply' = [reply EXCEPT ![r].get = rep]
            /\ seen' = [seen EXCEPT ![r] =
                          IF rep.kind = "ok" THEN written[InFlight(r).key] ELSE None]
            /\ IF state.err = ""
               THEN /\ loaded' = [loaded EXCEPT ![r] = state.item]
                    /\ pc' = [pc EXCEPT ![r] = "service"]
                    /\ UNCHANGED << outcome, sent >>
               ELSE IF Len(sent[r]) < 2
               THEN /\ sent' = [sent EXCEPT ![r] = Append(@, InFlight(r))]
                    /\ UNCHANGED << loaded, pc, outcome >>
               ELSE /\ loaded' = loaded
                    /\ pc' = [pc EXCEPT ![r] = "done"]
                    /\ outcome' = [outcome EXCEPT ![r] = state.err]
                    /\ sent' = sent
    /\ UNCHANGED << inner, browser, store, written, req, report, upd, res >>

\* The store actor answers the Get and load's continuation runs: on Ok the
\* session is injected (set_session) and the service is called, on an error
\* the request fails.
LoadReply(r) ==
    /\ pc[r] = "load_wait"
    /\ \E rep \in {ReplyOk(store[InFlight(r).key]), ReplyErr, ReplyMailbox} :
        LET state == load_reply(rep, InFlight(r).key)
        IN  /\ reply' = [reply EXCEPT ![r].get = rep]
            /\ seen' = [seen EXCEPT ![r] =
                          IF rep.kind = "ok" THEN written[InFlight(r).key] ELSE None]
            /\ IF state.err = ""
               THEN /\ loaded' = [loaded EXCEPT ![r] = state.item]
                    /\ pc' = [pc EXCEPT ![r] = "service"]
                    /\ outcome' = outcome
               ELSE /\ loaded' = loaded
                    /\ pc' = [pc EXCEPT ![r] = "done"]
                    /\ outcome' = [outcome EXCEPT ![r] = state.err]
    /\ UNCHANGED << inner, browser, store, written, req, report, upd, sent, res >>

\* The service completes with a response: get_changes decides between
\* update, whose synchronous part picks the key, encodes the state and sends
\* Set, and passing the response through.
Service(r) ==
    /\ pc[r] = "service"
    /\ \E e \in ServiceEnds(loaded[r]), headers \in HandlerHeaders :
        LET changes == get_changes(IsSome(loaded[r]) \/ e.held, e.status, e.state)
            value == IF IsSome(loaded[r]) THEN Some(Unwrap(loaded[r]).value) ELSE None
        IN  /\ report' = [report EXCEPT ![r] =
                            [ran |-> TRUE, status |-> changes.status,
                             state |-> changes.state, headers |-> headers]]
            /\ IF IsSome(changes.state)
               THEN \E rnd \in Ids, order \in Orders(Unwrap(changes.state)) :
                      LET u == update_key(inner, value, rnd)
                      IN  /\ upd' = [upd EXCEPT ![r] = u]
                          /\ sent' = [sent EXCEPT ![r] = Append(@,
                                        update_msg(inner, u.key,
                                                   Unwrap(changes.state), order))]
                          /\ pc' = [pc EXCEPT ![r] = "update_wait"]
                          /\ UNCHANGED << browser, res, outcome >>
               ELSE /\ res' = [res EXCEPT ![r] = headers]
                    /\ outcome' = [outcome EXCEPT ![r] = "ok"]
                    /\ pc' = [pc EXCEPT ![r] = "done"]
                    /\ browser' = BrowserStore(browser, headers)
                    /\ UNCHANGED << upd, sent >>
    /\ UNCHANGED << inner, store, written, req, loaded, seen, reply >>

\* Mutant of ServiceErr: the state load injected is written back before the
\* error of the service is returned.
ServiceErr_writes_back(r) ==
    /\ pc[r] = "service"
    /\ pc' = [pc EXCEPT ![r] = "done"]
    /\ outcome' = [outcome EXCEPT ![r] = "ServiceError"]
    /\ sent' = [sent EXCEPT ![r] =
                  IF IsSome(loaded[r])
                  THEN Append(@, update_msg(inner, Unwrap(loaded[r]).value,
                                            Unwrap(loaded[r]).state, << >>))
                  ELSE Append(@, update_msg(inner, SampleId(1), EmptyMap, << >>))]
    /\ UNCHANGED << inner, browser, store, written, req, loaded, seen, report, upd,
                    reply, res >>

\* The service fails: and_then skips the closure and the error is the
\* request's.
ServiceErr(r) ==
    /\ pc[r] = "service"
    /\ pc' = [pc EXCEPT ![r] = "done"]
    /\ outcome' = [outcome EXCEPT ![r] = "ServiceError"]
    /\ UNCHANGED << inner, browser, store, written, req, loaded, seen, report, upd,
                    reply, sent, res >>

\* The store applies the Set and acknowledges it.
RedisSet(r) ==
    /\ pc[r] = "update_wait"
    /\ store' = [store EXCEPT ![InFlight(r).key] = Some(InFlight(r).value)]
    /\ written' = [written EXCEPT ![InFlight(r).key] =
                      Some([map |-> Unwrap(report[r].state), by |-> r])]
    /\ reply' = [reply EXCEPT ![r].set = ReplyOk(None)]
    /\ pc' = [pc EXCEPT ![r] = "update_replied"]
    /\ UNCHANGED << inner, browser, req, loaded, seen, report, upd, sent, res, outcome >>

\* The Set fails: the store answers with an error, or the send to the actor
\* fails with a MailboxError; the store holds what it held.
RedisSetErr(r) ==
    /\ pc[r] = "update_wait"
    /\ \E rep \in {ReplyErr, ReplyMailbox} :
        reply' = [reply EXCEPT ![r].set = rep]
    /\ pc' = [pc EXCEPT ![r] = "update_replied"]
    /\ UNCHANGED << inner, browser, store, written, req, loaded, seen, report, upd,
                    sent, res, outcome >>

\* update's continuation on the reply to Set; the browser stores the cookies
\* of the response.
UpdateReply(r) ==
    /\ pc[r] = "update_replied"
    /\ LET out == update_reply(reply[r].set, upd[r].jar, report[r].headers)
       IN  /\ res' = [res EXCEPT ![r] = out.headers]
           /\ outcome' = [outcome EXCEPT ![r] =
                            IF out.err = "" THEN "ok" ELSE out.err]
           /\ browser' = BrowserStore(browser, out.headers)
    /\ pc' = [pc EXCEPT ![r] = "done"]
    /\ UNCHANGED << inner, store, written, req, loaded, seen, report, upd,
                    reply, sent >>

\* The store evicts a key whose time to live has passed.
Expire(id) ==
    /\ IsSome(store[id])
    /\ store' = [store EXCEPT ![id] = None]
    /\ written' = [written EXCEPT ![id] = None]
    /\ UNCHANGED << inner, browser, pc, req, loaded, seen, report, upd, reply, sent,
                    res, outcome >>

\* The store applies the Set but the request gets no acknowledgement: the
\* reply is lost with the connection (an error) or with the actor (a
\* MailboxError).
RedisSetLost(r) ==
    /\ pc[r] = "update_wait"
    /\ store' = [store EXCEPT ![InFlight(r).key] = Some(InFlight(r).value)]
    /\ written' = [written EXCEPT ![InFlight(r).key] =
                      Some([map |-> Unwrap(report[r].state), by |-> r])]
    /\ \E rep \in {ReplyErr, ReplyMailbox} :
        reply' = [reply EXCEPT ![r].set = rep]
    /\ pc' = [pc EXCEPT ![r] = "update_replied"]
    /\ UNCHANGED << inner, browser, req, loaded, seen, report, upd, sent, res, outcome >>

\* The pipeline drops the future of the request at one of its suspensions
\* (the client went away, a timeout fired). A Set already in the actor's
\* mailbox is skipped when the actor finds its reply channel closed, and is
\* applied when the actor had taken it up before.
Cancel(r) ==
    /\ pc[r] \in {"load_wait", "service", "update_wait"}
    /\ IF pc[r] = "update_wait"
       THEN \E applied \in BOOLEAN :
              IF applied
              THEN /\ store' = [store EXCEPT ![InFlight(r).key] = Some(InFlight(r).value)]
                   /\ written' = [written EXCEPT ![InFlight(r).key] =
                                     Some([map |-> Unwrap(report[r].state), by |-> r])]
              ELSE UNCHANGED << store, written >>
       ELSE UNCHANGED << store, written >>
    /\ pc' = [pc EXCEPT ![r] = "done"]
    /\ outcome' = [outcome EXCEPT ![r] = "Cancelled"]
    /\ UNCHANGED << inner, browser, req, loaded, seen, report, upd, reply, sent, res >>

Next ==
    \/ \E r \in Reqs : Call(r)
    \/ \E r \in Reqs : LoadReply(r)
    \/ \E r \in Reqs : Service(r)
    \/ \E r \in Reqs : ServiceErr(r)
    \/ \E r \in Reqs : RedisSet(r)
    \/ \E r \in Reqs : RedisSetErr(r)
    \/ \E r \in Reqs : UpdateReply(r)
    \/ \E id \in Ids : Expire(id)

Spec == Init /\ [][Next]_vars

\* The same system with the failures between a request and the store that
\* leave a Set unacknowledged, and with cancellation of a request.
NextFaulty ==
    \/ Next
    \/ \E r \in Reqs : RedisSetLost(r)
    \/ \E r \in Reqs : Cancel(r)

SpecFaulty == Init /\ [][NextFaulty]_vars

\* The result of serde_json::to_string as update matches on it.
EncodeOk(body) == [ok |-> TRUE, body |-> body]
EncodeErr == [ok |-> FALSE, body |-> << >>]

update_encoded_sends_anyway(self, key, enc) ==
    [err |-> "", msg |-> Some(Set(key, enc.body, Ex(self.ttl)))]

\* Inner::update from the match on the encoded state: Ok(body) sends Set,
\* Err(e) resolves the request to the error, which answers as an internal
\* server error, and nothing is sent.
update_encoded(self, key, enc) ==
    IF enc.ok
    THEN [err |-> "", msg |-> Some(Set(key, enc.body, Ex(self.ttl)))]
    ELSE [err |-> "InternalServerError", msg |-> None]

\* The service completes with a response that holds a session, update picks
\* its key and prepares its cookie, and to_string returns Err. The encoder
\* does not fail on a map of strings to strings; this step is the Err arm of
\* update, taken as if it could.
ServiceEncodeErr(r) ==
    /\ pc[r] = "service"
    /\ \E e \in ServiceEnds(loaded[r]), headers \in HandlerHeaders :
        LET changes == get_changes(IsSome(loaded[r]) \/ e.held, e.status, e.state)
            value == IF IsSome(loaded[r]) THEN Some(Unwrap(loaded[r]).value) ELSE None
        IN  /\ IsSome(changes.state)
            /\ report' = [report EXCEPT ![r] =
                            [ran |-> TRUE, status |-> changes.status,
                             state |-> changes.state, headers |-> headers]]
            /\ \E rnd \in Ids :
                LET u == update_key(inner, value, rnd)
                    out == update_encoded(inner, u.key, EncodeErr)
                IN  /\ upd' = [upd EXCEPT ![r] = u]
                    /\ IF IsSome(out.msg)
                       THEN /\ sent' = [sent EXCEPT ![r] = Append(@, Unwrap(out.msg))]
                            /\ pc' = [pc EXCEPT ![r] = "update_wait"]
                            /\ outcome' = outcome
                       ELSE /\ sent' = sent
                            /\ pc' = [pc EXCEPT ![r] = "done"]
                            /\ outcome' = [outcome EXCEPT ![r] = out.err]
    /\ UNCHANGED << inner, browser, store, written, req, loaded, seen, reply, res >>

\* The same system with an encoder that can fail.
NextEncode ==
    \/ Next
    \/ \E r \in Reqs : ServiceEncodeErr(r)

SpecEncode == Init /\ [][NextEncode]_vars

\* ------------------------------------------------------------ observations
Done(r) == pc[r] = "done"
Gets(r) == SelectSeq(sent[r], LAMBDA m : m.op = "GET")
Sets(r) == SelectSeq(sent[r], LAMBDA m : m.op = "SET")

\* The cookies of request r that carry the configured name.
Named(r) == SelectSeq(req[r], LAMBDA c : c.name = inner.name)

\* A cookie value that the configured secret signed.
ValidlySigned(v) == v = SignedValue(Secret, v.value)

\* The handler of r completed and its report says the session changed.
ReportsChange(r) == report[r].ran /\ report[r].status # "Unchanged"

\* The handler of r completed and its report says the session did not change.
ReportsNoChange(r) == report[r].ran /\ report[r].status = "Unchanged"

\* The Set-Cookie headers the middleware added to the handler's response.
Added(r) == SubSeq(res[r], Len(report[r].headers) + 1, Len(res[r]))

\* The response of r is the handler's, passed through.
PassedThrough(r) == outcome[r] = "ok" /\ res[r] = report[r].headers

\* The bytes decode to exactly the map m.
DecodesTo(bytes, m) == from_slice(bytes) = JsonOk(m)

\* A string of IdLen alphanumeric characters.
IsSessionId(id) ==
    /\ Len(id) = IdLen
    /\ \A i \in 1 .. Len(id) : \E j \in 1 .. Len(Alphanumeric) : id[i] = Alphanumeric[j]

\* ---------------------------------------------------------------- claims
\* C1 (new-session minting): a request with no cookie of the configured name
\* whose handler reports a changed session and whose Set the store
\* acknowledged has sent exactly one Set, under a generated 32-character id
\* and with the handler's final map, and its response carries the handler's
\* headers plus exactly one Set-Cookie: the configured name with that id,
\* signed.
C1_NewSessionMinting ==
    \A r \in Reqs :
        (Done(r) /\ Named(r) = << >> /\ ReportsChange(r) /\ reply[r].set.kind = "ok")
        => /\ Len(Sets(r)) = 1
           /\ IsSessionId(Sets(r)[1].key)
           /\ DecodesTo(Sets(r)[1].value, Unwrap(report[r].state))
           /\ outcome[r] = "ok"
           /\ Len(res[r]) = Len(report[r].headers) + 1
           /\ Len(Added(r)) = 1
           /\ Added(r)[1].name = inner.name
           /\ Added(r)[1].value = SignedValue(Secret, Sets(r)[1].key)

C1_Witness ==
    \E r \in Reqs :
        /\ Done(r) /\ Named(r) = << >> /\ ReportsChange(r)
        /\ reply[r].set.kind = "ok"
        /\ Len(Added(r)) = 1

C3_NoOpPreservation ==
    \A r \in Reqs :
        ReportsNoChange(r)
        => /\ Sets(r) = << >>
           /\ Done(r) => PassedThrough(r)

\* C4 (store failure on write): a request whose Set failed, with a store
\* error or a mailbox error, ends with an internal server error and no
\* Set-Cookie header, also when a cookie had been prepared.
C4_WriteFailurePropagates ==
    \A r \in Reqs :
        (Done(r) /\ reply[r].set.kind \in {"err", "mailbox"})
        => /\ outcome[r] = "InternalServerError"
           /\ res[r] = << >>

C4_Witness ==
    \E r \in Reqs :
        /\ Done(r) /\ reply[r].set.kind \in {"err", "mailbox"}
        /\ IsSome(upd[r].jar)

\* C5 (store failure on load): a request whose Get failed, with a store
\* error or a mailbox error, ends with an internal server error; its handler
\* never ran and it sent no Set.
C5_LoadFailurePropagates ==
    \A r \in Reqs :
        reply[r].get.kind \in {"err", "mailbox"}
        => /\ Done(r)
           /\ outcome[r] = "InternalServerError"
           /\ ~ report[r].ran
           /\ Sets(r) = << >>
           /\ res[r] = << >>

C5_Witness ==
    \E r \in Reqs : reply[r].get.kind \in {"err", "mailbox"} /\ Done(r)

\* The first cookie of r with the configured name was not signed by the
\* configured secret.
InvalidFirst(r) == Named(r) # << >> /\ ~ ValidlySigned(Named(r)[1].value)

\* What a request does that starts without a session: it sends no Get, the
\* handler gets no state, an error can only come from the write, and a Set
\* goes under a generated id for which a cookie was prepared.
NoSessionRun(r) ==
    /\ pc[r] # "load_wait"
    /\ Gets(r) = << >>
    /\ reply[r].get = NoReply
    /\ loaded[r] = None
    /\ outcome[r] = "InternalServerError" => reply[r].set.kind \in {"err", "mailbox"}
    /\ Sets(r) # << >>
       => /\ Len(Sets(r)) = 1
          /\ IsSessionId(Sets(r)[1].key)
          /\ IsSome(upd[r].jar)
          /\ Unwrap(upd[r].jar).value = SignedValue(Secret, Sets(r)[1].key)
    /\ (Done(r) /\ outcome[r] = "ok" /\ Sets(r) # << >>)
       => Added(r) = << Unwrap(upd[r].jar) >>
    /\ (Done(r) /\ outcome[r] = "ok" /\ Sets(r) = << >>) => Added(r) = << >>

\* C6 (an invalid cookie is no cookie): a request whose first cookie of the
\* configured name does not verify runs as a request with no such cookie
\* does: load decides the same for both, neither sends a Get, both give the
\* handler no state, neither fails because of the cookie, and a changed
\* session is written under a newly generated id with a new cookie.
C6_InvalidCookieIsNoCookie ==
    \A r \in Reqs :
        (pc[r] # "idle" /\ (Named(r) = << >> \/ InvalidFirst(r)))
        => /\ NoSessionRun(r)
           /\ load(inner, req[r]) = load(inner, << >>)

C6_Witness ==
    \E r \in Reqs :
        /\ InvalidFirst(r)
        /\ Done(r) /\ outcome[r] = "ok"
        /\ Len(Sets(r)) = 1
        /\ Sets(r)[1].key # Named(r)[1].value.value
        /\ Len(Added(r)) = 1

\* C7 (soft-fail on corruption): when the Get returns bytes that are no
\* session map, load yields no session and no error and the handler is
\* called; if the handler then reports no change, the request sends no Set
\* and ends without an error.
C7_SoftFailOnCorruption ==
    \A r \in Reqs :
        (/\ reply[r].get.kind = "ok" /\ IsSome(reply[r].get.data)
         /\ Unwrap(reply[r].get.data) \in CorruptBytes)
        => /\ loaded[r] = None
           /\ pc[r] = "service" \/ report[r].ran \/ outcome[r] = "ServiceError"
           /\ ReportsNoChange(r) => Sets(r) = << >>
           /\ (ReportsNoChange(r) /\ Done(r)) => PassedThrough(r)

\* C8 (round trip through the store): when the store serves a request's Get
\* for id X and the last Set applied under X, not expired since, was an
\* update's with map M, the handler of the request gets exactly M, under X.
C8_SessionRoundTrip ==
    \A r \in Reqs :
        (reply[r].get.kind = "ok" /\ IsSome(seen[r]))
        => /\ Len(Gets(r)) = 1
           /\ loaded[r] = Some([state |-> Unwrap(seen[r]).map,
                                value |-> Gets(r)[1].key])

C8_Witness ==
    \E r1, r2 \in Reqs :
        /\ r1 # r2
        /\ Done(r1) /\ outcome[r1] = "ok" /\ reply[r1].set.kind = "ok"
        /\ report[r1].state = Some(EmptyMap)
        /\ reply[r2].get.kind = "ok"
        /\ seen[r2] = Some([map |-> EmptyMap, by |-> r1])
        /\ Gets(r2)[1].key = Sets(r1)[1].key
        /\ IsSome(loaded[r2])

\* C9 (cookie integrity): the cookie an update prepares for an id verifies
\* under the configured key and yields that id, so that load sends a Get for
\* it; a request whose first cookie of the configured name was altered after
\* signing or signed with another secret sends no Get and has no session.
C9_CookieIntegrity ==
    /\ \A r \in Reqs :
        IsSome(upd[r].jar)
        => LET c == Unwrap(upd[r].jar)
           IN  /\ SignedGet(inner.key, c) = Some([c EXCEPT !.value = PlainValue(upd[r].key)])
               /\ load(inner, << ReqCookie(c.name, c.value) >>) = Some(upd[r].key)
    /\ \A r \in Reqs :
        (pc[r] # "idle" /\ InvalidFirst(r))
        => Gets(r) = << >> /\ loaded[r] = None /\ pc[r] # "load_wait"

C9_Witness ==
    \E r1, r2 \in Reqs :
        /\ r1 # r2
        /\ IsSome(upd[r1].jar) /\ Done(r1) /\ outcome[r1] = "ok"
        /\ Named(r2) = << ReqCookie(inner.name, Unwrap(upd[r1].jar).value) >>
        /\ Gets(r2) = << Get(upd[r1].key) >>

\* Requests r1 and r2 both loaded the session stored under id before the Set
\* of either was applied, both report a change, and the store acknowledged
\* the Set of both.
ConcurrentWriters(r1, r2, id) ==
    /\ r1 # r2
    /\ \A r \in {r1, r2} :
        /\ IsSome(loaded[r]) /\ Unwrap(loaded[r]).value = id
        /\ IsSome(seen[r]) /\ Unwrap(seen[r]).by \notin {r1, r2}
        /\ ReportsChange(r)
        /\ reply[r].set.kind = "ok"
        /\ Done(r)

\* C10 (last write wins): when two requests that loaded the same session
\* concurrently both report a change and both Sets are acknowledged, then,
\* as long as no later Set or expiry touched the key, the store holds under
\* it the final map of the request whose Set was applied last, and both
\* requests ended without an error.
C10_LastWriteWins ==
    \A r1, r2 \in Reqs, id \in Ids :
        (/\ ConcurrentWriters(r1, r2, id)
         /\ IsSome(written[id]) /\ Unwrap(written[id]).by = r2)
        => /\ IsSome(store[id])
           /\ DecodesTo(Unwrap(store[id]), Unwrap(report[r2].state))
           /\ Sets(r1)[1].key = id /\ Sets(r2)[1].key = id
           /\ outcome[r1] = "ok" /\ outcome[r2] = "ok"

C10_Witness ==
    \E r1, r2 \in Reqs, id \in Ids :
        /\ ConcurrentWriters(r1, r2, id)
        /\ IsSome(written[id]) /\ Unwrap(written[id]).by = r2
        /\ report[r1].state # report[r2].state
        /\ ~ DecodesTo(Unwrap(store[id]), Unwrap(report[r1].state))

\* The store holds under the key of r's Set what that Set of r wrote.
HoldsWriteOf(r) ==
    /\ Sets(r) # << >>
    /\ IsSome(written[Sets(r)[1].key])
    /\ Unwrap(written[Sets(r)[1].key]).by = r

\* C11 (no partial write): a request that sent a Set and has ended either
\* got the store's acknowledgement and succeeded, or failed with the store
\* left without its write; a Set that was cancelled or not acknowledged is
\* not committed.
C11_NoPartialWrite ==
    \A r \in Reqs :
        (Done(r) /\ Sets(r) # << >>)
        => \/ reply[r].set.kind = "ok" /\ outcome[r] = "ok"
           \/ outcome[r] # "ok" /\ ~ HoldsWriteOf(r)

\* Request r ended in the Err arm of update's match on the encoded state.
EncodeFailed(r) ==
    Done(r) /\ report[r].ran /\ IsSome(report[r].state) /\ Sets(r) = << >>

\* C12 (encode error on update): a request whose final state could not be
\* serialized ends with an internal server error and its response carries no
\* Set-Cookie header, also when update had generated an id and prepared a
\* cookie; no Set is sent for it: every Set a request sends carries an
\* encoding of its final state.
C12_EncodeErrorFails ==
    \A r \in Reqs :
        /\ EncodeFailed(r)
           => /\ outcome[r] = "InternalServerError"
              /\ res[r] = << >>
              /\ reply[r].set = NoReply
        /\ (report[r].ran /\ IsSome(report[r].state) /\ ~ EncodeFailed(r))
           => /\ Len(Sets(r)) = 1
              /\ DecodesTo(Sets(r)[1].value, Unwrap(report[r].state))

C12_Witness ==
    \E r \in Reqs :
        /\ EncodeFailed(r)
        /\ IsSome(upd[r].jar)
        /\ outcome[r] = "InternalServerError"

\* The first cookie of r with the configured name is validly signed, and the
\* store answered the Get with no value or with bytes that do not decode.
EmptyOrCorruptLoad(r) ==
    /\ Named(r) # << >> /\ ValidlySigned(Named(r)[1].value)
    /\ reply[r].get.kind = "ok"
    /\ \/ reply[r].get.data = None
       \/ ~ from_slice(Unwrap(reply[r].get.data)).ok

C14_CookieOnlyAfterPersistence ==
    [][\A r \in Reqs :
          (res'[r] # res[r] /\ Len(res'[r]) > Len(report'[r].headers))
          => /\ reply[r].set.kind = "ok"
             /\ Len(Sets(r)) = 1
             /\ \A i \in Len(report'[r].headers) + 1 .. Len(res'[r]) :
                   /\ res'[r][i].name = inner.name
                   /\ res'[r][i].value = SignedValue(Secret, Sets(r)[1].key)]_vars

C14_Witness ==
    \E r \in Reqs :
        /\ Done(r) /\ outcome[r] = "ok"
        /\ Len(Added(r)) = 1
        /\ reply[r].set.kind = "ok"
        /\ Added(r)[1].value = SignedValue(Secret, Sets(r)[1].key)

\* C15 (no local retry, fixed phase order): a request sends at most one Get
\* and at most one Set, the Get first, also when a store call failed; the
\* handler is invoked only when the Get, if one was sent, has been answered
\* with Ok; a Set is sent only once the handler has completed; and a Get is
\* sent only for the id of a validly signed cookie of the configured name.
C15_NoRetryFixedOrder ==
    \A r \in Reqs :
        /\ Len(Gets(r)) <= 1 /\ Len(Sets(r)) <= 1
        /\ Len(sent[r]) = Len(Gets(r)) + Len(Sets(r))
        /\ (Gets(r) # << >>) => sent[r][1].op = "GET"
        /\ (pc[r] = "service" \/ report[r].ran)
           => (Gets(r) = << >> \/ reply[r].get.kind = "ok")
        /\ (pc[r] = "load_wait") => (~ report[r].ran /\ Sets(r) = << >>)
        /\ (Sets(r) # << >>)
           => (report[r].ran /\ pc[r] \in {"update_wait", "update_replied", "done"})
        /\ (Gets(r) # << >>)
           => /\ Named(r) # << >>
              /\ ValidlySigned(Named(r)[1].value)
              /\ Gets(r)[1].key = Named(r)[1].value.value

C15_Witness ==
    \E r1, r2 \in Reqs :
        /\ Done(r1) /\ Len(Gets(r1)) = 1 /\ Len(Sets(r1)) = 1
        /\ reply[r1].set.kind \in {"err", "mailbox"}
        /\ Done(r2) /\ Len(Gets(r2)) = 1 /\ Sets(r2) = << >>
        /\ reply[r2].get.kind \in {"err", "mailbox"}

\* The handler of r was invoked after the load phase and failed: it returned
\* an error, or the request was cancelled while it ran.
HandlerFailed(r) ==
    /\ Done(r) /\ ~ report[r].ran
    /\ outcome[r] \in {"ServiceError", "Cancelled"}
    /\ Gets(r) = << >> \/ reply[r].get.kind = "ok"

\* C16 (handler failure commits nothing): a request whose handler failed
\* after the load phase has sent no Set and produced no Set-Cookie header,
\* nothing in the store was written by it, and, when no other request sent
\* a Set, the store holds under the session id what it returned to the Get
\* of the request or, after an expiry, nothing.
C16_HandlerFailureCommitsNothing ==
    \A r \in Reqs :
        HandlerFailed(r)
        => /\ Sets(r) = << >>
           /\ upd[r] = NoUpdate
           /\ res[r] = << >>
           /\ \A id \in Ids : IsSome(written[id]) => Unwrap(written[id]).by # r
           /\ (Gets(r) # << >> /\ \A q \in Reqs : Sets(q) = << >>)
              => \/ store[Gets(r)[1].key] = reply[r].get.data
                 \/ store[Gets(r)[1].key] = None

C16_Witness ==
    \E r1, r2 \in Reqs :
        /\ HandlerFailed(r1) /\ outcome[r1] = "ServiceError"
        /\ IsSome(loaded[r1])
        /\ store[Gets(r1)[1].key] = reply[r1].get.data
        /\ HandlerFailed(r2) /\ outcome[r2] = "Cancelled"

\* C17 (fixed configuration, configured TTL on every write): the
\* configuration is the one built at construction, with a TTL of "7200"
\* unless ttl() set another; no step changes it; and every Set a request
\* sends, under a reused or a generated id, carries that TTL as its expiry
\* in seconds.
C17_ConfiguredTtlOnEveryWrite ==
    [][/\ inner' = inner
       /\ inner \in Configs
       /\ RedisSession_new(Secret).ttl = "7200"
       /\ inner.ttl \in {"7200"} \cup { ToString(n) : n \in TtlArgs }
       /\ \A r \in Reqs : \A i \in 1 .. Len(sent'[r]) :
             sent'[r][i].op = "SET" => sent'[r][i].expiration = Ex(inner.ttl)]_vars

C17_Witness ==
    \E r1, r2 \in Reqs :
        /\ inner.ttl # RedisSession_new(Secret).ttl
        /\ Len(Sets(r1)) = 1 /\ upd[r1].jar = None
        /\ Len(Sets(r2)) = 1 /\ IsSome(upd[r2].jar)
        /\ Sets(r1)[1].expiration = Ex(inner.ttl)
        /\ Sets(r2)[1].expiration = Ex(inner.ttl)

\* The store returned to r's Get bytes that decode to a session map, for a
\* first cookie of the configured name that is validly signed.
DecodedLoad(r) ==
    /\ Named(r) # << >> /\ ValidlySigned(Named(r)[1].value)
    /\ reply[r].get.kind = "ok" /\ IsSome(reply[r].get.data)
    /\ from_slice(Unwrap(reply[r].get.data)).ok

\* C18 (mint exactly when load yielded no session): in every update, an id
\* is generated and a cookie prepared if and only if load returned no
\* session, which is the case exactly when the cookie is absent, its
\* signature is invalid, the store has no value for the key, or the bytes do
\* not decode; the id of the cookie is reused, with no cookie prepared, if
\* and only if the store returned bytes that decoded for a validly signed
\* cookie.
C18_MintIffNoSession ==
    \A r \in Reqs :
        Sets(r) # << >>
        => /\ IsSome(upd[r].jar) <=> loaded[r] = None
           /\ loaded[r] = None
              <=> \/ Named(r) = << >>
                  \/ InvalidFirst(r)
                  \/ EmptyOrCorruptLoad(r)
           /\ upd[r].jar = None <=> DecodedLoad(r)
           /\ DecodedLoad(r) => Sets(r)[1].key = Named(r)[1].value.value
           /\ IsSome(upd[r].jar)
              => /\ Sets(r)[1].key = upd[r].key
                 /\ load(inner, << ReqCookie(inner.name, Unwrap(upd[r].jar).value) >>)
                    = Some(upd[r].key)

C18_Witness ==
    \E r1, r2 \in Reqs :
        /\ Sets(r1) # << >> /\ IsSome(upd[r1].jar)
        /\ EmptyOrCorruptLoad(r1) /\ IsSome(reply[r1].get.data)
        /\ Sets(r2) # << >> /\ upd[r2].jar = None /\ DecodedLoad(r2)

\* C19 (change status never consulted): a request whose handler completed
\* sends its one Set exactly when the report carries a state map, which it
\* does for every status once a session was loaded; a purged session that
\* was loaded is written as its final, empty map under the loaded id, with
\* no cookie prepared or added; and a request sends the store nothing but
\* Get and Set, so it never deletes a key.
C19_StatusNeverConsulted ==
    \A r \in Reqs :
        /\ \A i \in 1 .. Len(sent[r]) : sent[r][i].op \in {"GET", "SET"}
        /\ report[r].ran
           => /\ report[r].status \in SessionStatuses
              /\ IsSome(report[r].state) <=> Sets(r) # << >>
              /\ IsSome(loaded[r]) => IsSome(report[r].state)
              /\ IsSome(report[r].state)
                 => /\ Len(Sets(r)) = 1
                    /\ DecodesTo(Sets(r)[1].value, Unwrap(report[r].state))
              /\ (report[r].status = "Purged" /\ IsSome(loaded[r]))
                 => /\ Sets(r)[1].key = Unwrap(loaded[r]).value
                    /\ DecodesTo(Sets(r)[1].value, EmptyMap)
                    /\ upd[r].jar = None
                    /\ Done(r) => Added(r) = << >>

C19_Witness ==
    \E r1, r2 \in Reqs :
        /\ report[r1].ran /\ report[r1].status = "Purged" /\ IsSome(loaded[r1])
        /\ Done(r1) /\ outcome[r1] = "ok" /\ res[r1] = report[r1].headers
        /\ Sets(r1)[1].key = Unwrap(loaded[r1]).value
        /\ report[r2].ran /\ report[r2].status = "Unchanged"
        /\ Len(Sets(r2)) = 1

\* Request r carries several cookies of the configured name, the first of
\* them invalid and a later one validly signed.
InvalidBeforeValid(r) ==
    /\ Len(Named(r)) >= 2
    /\ InvalidFirst(r)
    /\ \E i \in 2 .. Len(Named(r)) :
          /\ ValidlySigned(Named(r)[i].value)
          /\ IsSome(load(inner, << Named(r)[i] >>))

\* C20 (first matching cookie decides): load decides on the first cookie of
\* the configured name alone, whatever follows it; a request whose first
\* such cookie has an invalid signature and whose later one is validly
\* signed sends no Get and gets no session, and an update of it generates an
\* id.
C20_FirstMatchingCookieDecides ==
    /\ \A c1 \in BrowserCookies(inner), c2 \in BrowserCookies(inner) :
          c1 # << >> => load(inner, c1 \o c2) = load(inner, << c1[1] >>)
    /\ \A r \in Reqs :
          (pc[r] # "idle" /\ Len(Named(r)) >= 2)
          => /\ load(inner, req[r]) = load(inner, << Named(r)[1] >>)
             /\ InvalidBeforeValid(r)
                => /\ sent[r] = Sets(r)
                   /\ reply[r].get = NoReply
                   /\ seen[r] = None /\ loaded[r] = None
                   /\ Sets(r) # << >> => IsSome(upd[r].jar)

C20_Witness ==
    \E r \in Reqs :
        /\ InvalidBeforeValid(r)
        /\ Done(r) /\ outcome[r] = "ok"
        /\ Gets(r) = << >>
        /\ Len(Added(r)) = 1

====
